---- MODULE Spec2Model ----
(***************************************************************************)
(* Model of the PPO agent of skrl (src/skrl/agents/ppo/ppo.py): the        *)
(* process-wide default configuration, the constructor, and the handlers   *)
(* act, record_transition, pre_interaction, post_interaction and _update,  *)
(* driven one timestep at a time by a sequential training loop.            *)
(*                                                                         *)
(* Tensors are symbolic: the observation of timestep t is the number t, a  *)
(* value estimate or a log-probability is a record naming the network      *)
(* call that produced it.  None is Python's None.                          *)
(*                                                                         *)
(* A second specification, SpecLoader, models the command line handling    *)
(* of load_bidexhands_env (src/skrl/envs/loaders/torch/bidexhands_envs.py).*)
(* A third, SpecLoss, models the clipped surrogate policy loss of _update   *)
(* on minibatches of exact rationals.                                       *)
(***************************************************************************)
EXTENDS Integers, Sequences, FiniteSets, TLC

(* ------------------------------ bounds --------------------------------- *)
MaxTimesteps == 3      \* timesteps the training loop runs
MaxRollouts == 2       \* largest overriding "rollouts"
MaxEpochs == 2         \* largest overriding "learning_epochs"
MaxWarmup == 1         \* largest overriding "random_timesteps"/"learning_starts"
MaxBatch == 2          \* largest minibatch of the policy loss computation

\* Python's None; every optional value of the model is a record, so that
\* it can be compared with None.
None == [none |-> TRUE]

(* ------------------------- configuration ------------------------------- *)
\* Values of "kl_threshold": negative, zero (the default) and positive.
KLThresholds == {-1, 0, 1}

\* Values of the approximate KL divergence of an epoch, which is never
\* negative: below, at and above the positive threshold.
KLValues == {0, 1, 2}

\* Values of a loss of the first epoch.
LossValues == {1, 2}

\* The documented defaults (module-level literal of ppo.py).
DocumentedDefaults ==
    [rollouts |-> 16, learning_epochs |-> 8,
     random_timesteps |-> 1000, learning_starts |-> 1000,
     entropy_loss_scale |-> 0, kl_threshold |-> 0]

\* The dicts an overriding cfg may be when it names every key.
FullCfgs ==
    [rollouts : 1..MaxRollouts,
     learning_epochs : 0..MaxEpochs,
     random_timesteps : 0..MaxWarmup,
     learning_starts : 0..MaxWarmup,
     entropy_loss_scale : {0, 1},
     kl_threshold : KLThresholds]

\* The cfg arguments of the constructor: the empty dict (the default of the
\* parameter), or a dict naming every key.
EmptyCfg == [k \in {} |-> 0]
CfgArgs == {EmptyCfg} \cup FullCfgs

NetworksArgs == SUBSET {"policy", "value"}

\* The memory argument: a fresh memory object (no tensor created, nothing
\* stored).  The constructor calls self.memory.create_tensor unconditionally,
\* so agents are constructed with a memory.
EmptyMemory == [tensors |-> {}, samples |-> << >>, functions |-> None]
MemoryArgs == {EmptyMemory}

\* dict.update: keys of c overwrite those of d.
DictUpdate(d, c) == [k \in DOMAIN d |-> IF k \in DOMAIN c THEN c[k] ELSE d[k]]

TensorNames == {"states", "actions", "rewards", "dones", "log_prob", "values",
                "returns", "advantages"}

(* ------------------------------ state ---------------------------------- *)
VARIABLES
    PPO_DEFAULT_CONFIG,     \* the module-level default configuration dict
    constructed,            \* whether PPO(...) has been called
    cfgArg,                 \* cfg argument of the latest constructor call
    networks,               \* keys of the networks argument of that call
    cfg,                    \* self._rollouts, self._learning_epochs, ... (None: unset)
    policy_optimizer,       \* self.policy_optimizer (None: not built)
    value_optimizer,        \* self.value_optimizer (None: not built)
    memory,                 \* self.memory: tensors created and samples added, or None
    rollout,                \* self._rollout
    current_log_prob,       \* self._current_log_prob
    current_next_states,    \* self._current_next_states
    scalars,                \* writer.add_scalar calls of the latest _update
    calls,                  \* collaborator calls made by the latest handler, in order
    locals,                 \* local variables of the latest _update at its end
    updates,                \* number of _update runs so far
    interactions,           \* number of post_interaction calls so far
    pc,                     \* position of the training script
    timestep,               \* loop variable of the training loop
    returned,               \* what the latest act() returned
    error,                  \* exception that ended the script ("none": none)
    sys_argv,               \* sys.argv
    cli_args,               \* the list object passed as cli_args
    call,                   \* the load_bidexhands_env call made, or None
    minibatch,              \* sampled_advantages, sampled_log_prob, next_log_prob, ratio_clip
    policy_loss             \* the tensors of the policy loss computation, or None

vars == <<PPO_DEFAULT_CONFIG, constructed, cfgArg, networks, cfg, policy_optimizer,
          value_optimizer, memory, rollout, current_log_prob, current_next_states,
          scalars, calls, locals, updates, interactions, pc, timestep, returned, error,
          sys_argv, cli_args, call, minibatch, policy_loss>>

agentVars == <<PPO_DEFAULT_CONFIG, constructed, cfgArg, networks, cfg, policy_optimizer,
               value_optimizer, memory, rollout, current_log_prob, current_next_states,
               scalars, calls, locals, updates, interactions, pc, timestep, returned,
               error>>
loaderVars == <<sys_argv, cli_args, call>>
lossVars == <<minibatch, policy_loss>>

\* A string is the sequence of its pieces; no piece is a prefix of another
\* piece, so that str.startswith is the prefix relation on sequences.
Script == <<"train.py">>

InitAgent ==
    /\ PPO_DEFAULT_CONFIG = DocumentedDefaults
    /\ constructed = FALSE
    /\ cfgArg = EmptyCfg
    /\ networks = {}
    /\ cfg = None
    /\ policy_optimizer = None
    /\ value_optimizer = None
    /\ memory = None
    /\ rollout = 0
    /\ current_log_prob = None
    /\ current_next_states = None
    /\ scalars = << >>
    /\ calls = << >>
    /\ locals = None
    /\ updates = 0
    /\ interactions = 0
    /\ pc = "init"
    /\ timestep = 0
    /\ returned = None
    /\ error = "none"

\* The training script: no environment loader call, a bare command line.
Init ==
    /\ InitAgent
    /\ sys_argv = <<Script>>
    /\ cli_args = << >>
    /\ call = None
    /\ minibatch = None
    /\ policy_loss = None

(* ---------------------------- constructor ------------------------------ *)
\* Faulty variant of NetworksFound: only the policy binding is checked.
NetworksFoundPolicyOnly(networksIn) == "policy" \in networksIn

\* The two key checks of __init__: both networks are bound.
NetworksFound(networksIn) == "policy" \in networksIn /\ "value" \in networksIn

Adam(net) == [optimizer |-> "Adam", parameters |-> net]

\* PPO.__init__(env, networks, memory, cfg)
Construct(networksIn, memoryIn, cfgIn) ==
    /\ pc = "init"
    /\ constructed' = TRUE
    /\ cfgArg' = cfgIn
    /\ networks' = networksIn
    \* PPO_DEFAULT_CONFIG.update(cfg); super().__init__(..., cfg=PPO_DEFAULT_CONFIG)
    /\ PPO_DEFAULT_CONFIG' = DictUpdate(PPO_DEFAULT_CONFIG, cfgIn)
    \* a new object: nothing is set before the body runs
    /\ rollout' = 0
    /\ current_log_prob' = None
    /\ current_next_states' = None
    /\ IF ~NetworksFound(networksIn)
       THEN \* raise KeyError
            /\ cfg' = None
            /\ policy_optimizer' = None
            /\ value_optimizer' = None
            /\ memory' = memoryIn
            /\ error' = "KeyError"
            /\ pc' = "error"
       ELSE /\ cfg' = PPO_DEFAULT_CONFIG'
            /\ policy_optimizer' = Adam("policy")
            /\ value_optimizer' = Adam("value")
            /\ memory' = [memoryIn EXCEPT !.tensors = TensorNames]
            /\ error' = "none"
            /\ pc' = "init"
    /\ UNCHANGED <<scalars, calls, locals, updates, interactions, timestep, returned>>
    /\ UNCHANGED <<loaderVars, lossVars>>

(* --------------------------- collaborators ----------------------------- *)
\* The environment's observation, reward and done tensors of timestep t.
Obs(t) == [obs |-> t]
Reward(t) == [reward |-> t]
Done(t) == [done |-> t]

\* An optional integer argument.
Some(t) == [int |-> t]

\* policy.random_act(states) -> actions
PolicyRandomAct(states) == [sampled_by |-> "policy.random_act", states |-> states]

\* policy.act(states, inference) -> (actions, log_prob, actions_mean)
PolicyAct(states) ==
    LET actions == [sampled_by |-> "policy.act", states |-> states]
    IN [actions |-> actions,
        log_prob |-> [log_prob_of |-> actions, given |-> states],
        actions_mean |-> [mean_for |-> states]]

\* value.act(states, inference)[0]
ValueAct(states, inference) == [value_of |-> states, inference |-> inference]

(* -------------------------------- act ---------------------------------- *)
\* Faulty variant of RandomGate: the threshold timestep is still random.
RandomGateInclusive(t, random_timesteps) == t <= random_timesteps

\* The exploration gate of act: timestep < self._random_timesteps.
RandomGate(t, random_timesteps) == t < random_timesteps

\* Faulty variant of act: None orders below every integer, so a call
\* without timestep silently takes the random path.
actNoneBelowIntegers(states, inference, timestepIn) ==
    /\ pc = "act"
    /\ error' = error
    /\ pc' = "record"
    /\ IF timestepIn = None \/ RandomGate(timestepIn.int, cfg.random_timesteps)
       THEN /\ calls' = <<[fn |-> "policy.random_act", states |-> states]>>
            /\ returned' = [actions |-> PolicyRandomAct(states)]
            /\ UNCHANGED current_log_prob
       ELSE /\ calls' = <<[fn |-> "policy.act", states |-> states,
                           inference |-> inference]>>
            /\ current_log_prob' = PolicyAct(states).log_prob
            /\ returned' = PolicyAct(states)
    /\ UNCHANGED <<PPO_DEFAULT_CONFIG, constructed, cfgArg, networks, cfg,
                   policy_optimizer, value_optimizer, memory, rollout,
                   current_next_states, scalars, locals, updates, interactions,
                   timestep>>
    /\ UNCHANGED <<loaderVars, lossVars>>

\* PPO.act(states, inference, timestep, timesteps)
act(states, inference, timestepIn) ==
    /\ pc = "act"
    /\ IF timestepIn = None
       THEN \* None < int raises TypeError
            /\ error' = "TypeError"
            /\ pc' = "error"
            /\ calls' = << >>
            /\ UNCHANGED <<current_log_prob, returned>>
       ELSE /\ error' = error
            /\ pc' = "record"
            /\ IF RandomGate(timestepIn.int, cfg.random_timesteps)
               THEN /\ calls' = <<[fn |-> "policy.random_act", states |-> states]>>
                    /\ returned' = [actions |-> PolicyRandomAct(states)]
                    /\ UNCHANGED current_log_prob
               ELSE /\ calls' = <<[fn |-> "policy.act", states |-> states,
                                   inference |-> inference]>>
                    /\ current_log_prob' = PolicyAct(states).log_prob
                    /\ returned' = PolicyAct(states)
    /\ UNCHANGED <<PPO_DEFAULT_CONFIG, constructed, cfgArg, networks, cfg,
                   policy_optimizer, value_optimizer, memory, rollout,
                   current_next_states, scalars, locals, updates, interactions,
                   timestep>>
    /\ UNCHANGED <<loaderVars, lossVars>>

(* -------------------------- record_transition -------------------------- *)
\* Faulty variant of AddedSamples: the value is estimated for next_states.
AddedSamplesNextValue(states, actions, rewards, next_states, dones, log_prob) ==
    [states |-> states, actions |-> actions, rewards |-> rewards,
     next_states |-> next_states, dones |-> dones,
     log_prob |-> log_prob, values |-> ValueAct(next_states, TRUE)]

\* The row handed to memory.add_samples.
AddedSamples(states, actions, rewards, next_states, dones, log_prob) ==
    [states |-> states, actions |-> actions, rewards |-> rewards,
     next_states |-> next_states, dones |-> dones,
     log_prob |-> log_prob, values |-> ValueAct(states, TRUE)]

\* Faulty variant of CachedNextStates: the states acted on are cached.
CachedStates(states, next_states) == states

\* self._current_next_states = next_states
CachedNextStates(states, next_states) == next_states

\* PPO.record_transition(states, actions, rewards, next_states, dones, timestep, timesteps)
record_transition(states, actions, rewards, next_states, dones) ==
    /\ pc = "record"
    /\ pc' = "post"
    /\ current_next_states' = CachedNextStates(states, next_states)
    /\ IF memory # None
       THEN LET row == AddedSamples(states, actions, rewards, next_states, dones,
                                    current_log_prob)
            IN /\ memory' = [memory EXCEPT !.samples = Append(@, row)]
               /\ calls' = <<[fn |-> "value.act", states |-> states, inference |-> TRUE],
                             [fn |-> "memory.add_samples", samples |-> row]>>
       ELSE /\ memory' = memory
            /\ calls' = << >>
    /\ UNCHANGED <<PPO_DEFAULT_CONFIG, constructed, cfgArg, networks, cfg,
                   policy_optimizer, value_optimizer, rollout, current_log_prob,
                   scalars, locals, updates, interactions, timestep, returned, error>>
    /\ UNCHANGED <<loaderVars, lossVars>>

(* --------------------------- pre_interaction --------------------------- *)
\* PPO.pre_interaction(timestep, timesteps): pass
pre_interaction ==
    /\ \/ pc = "pre"
       \/ pc = "init" /\ constructed
    /\ pc' = "act"
    /\ calls' = << >>
    /\ UNCHANGED <<PPO_DEFAULT_CONFIG, constructed, cfgArg, networks, cfg,
                   policy_optimizer, value_optimizer, memory, rollout,
                   current_log_prob, current_next_states, scalars, locals, updates,
                   interactions, timestep, returned, error>>
    /\ UNCHANGED <<loaderVars, lossVars>>

(* ------------------------------ _update -------------------------------- *)
\* What the models compute during one _update, per epoch: the approximate KL
\* divergence, the policy loss, the value loss and the mean policy entropy.
\* The KL is 0 up to some epoch and hi from then on.
UpdateInputs(E) ==
    {[kl |-> [e \in 0..(E - 1) |-> IF e < k THEN 0 ELSE hi],
      policy_loss |-> [e \in 0..(E - 1) |-> l],
      value_loss |-> [e \in 0..(E - 1) |-> l + e],
      entropy |-> [e \in 0..(E - 1) |-> l]] :
        k \in 0..E, hi \in KLValues, l \in LossValues}

tensors_names == <<"states", "actions", "rewards", "dones", "log_prob", "values",
                   "returns", "advantages">>

\* The hyperparameters _update hands to memory.compute_functions.
computing_hyperparameters ==
    [normalize_returns |-> FALSE, normalize_advantages |-> TRUE]

\* Faulty variant of EarlyStop: a KL equal to the threshold stops too.
EarlyStopAtThreshold(kl_threshold, kl) == kl_threshold # 0 /\ kl >= kl_threshold

\* if self._kl_threshold: ... if kl > self._kl_threshold: break
EarlyStop(kl_threshold, kl) == kl_threshold # 0 /\ kl > kl_threshold

\* entropy_loss of one epoch
EntropyLoss(entropy_loss_scale, entropy) ==
    IF entropy_loss_scale # 0 THEN (0 - entropy_loss_scale) * entropy ELSE 0

\* Faulty variant of EpochCalls: the policy optimizer steps before its
\* gradients are zeroed and recomputed.
EpochCallsStepFirst(c, in, epoch, batch) ==
    (IF c.entropy_loss_scale # 0 THEN <<[fn |-> "policy.get_entropy"]>> ELSE << >>)
    \o <<[fn |-> "policy_optimizer.step"],
         [fn |-> "policy_optimizer.zero_grad"],
         [fn |-> "backward", tensor |-> "policy_loss + entropy_loss",
          loss |-> in.policy_loss[epoch]
                     + EntropyLoss(c.entropy_loss_scale, in.entropy[epoch])],
         [fn |-> "value.act", states |-> batch, inference |-> FALSE],
         [fn |-> "value_optimizer.zero_grad"],
         [fn |-> "backward", tensor |-> "value_loss", loss |-> in.value_loss[epoch]],
         [fn |-> "value_optimizer.step"]>>

\* The calls of one executed epoch, after the early-stop test.
EpochCalls(c, in, epoch, batch) ==
    (IF c.entropy_loss_scale # 0 THEN <<[fn |-> "policy.get_entropy"]>> ELSE << >>)
    \o <<[fn |-> "policy_optimizer.zero_grad"],
         [fn |-> "backward", tensor |-> "policy_loss + entropy_loss",
          loss |-> in.policy_loss[epoch]
                     + EntropyLoss(c.entropy_loss_scale, in.entropy[epoch])],
         [fn |-> "policy_optimizer.step"],
         [fn |-> "value.act", states |-> batch, inference |-> FALSE],
         [fn |-> "value_optimizer.zero_grad"],
         [fn |-> "backward", tensor |-> "value_loss", loss |-> in.value_loss[epoch]],
         [fn |-> "value_optimizer.step"]>>

\* for epoch in range(self._learning_epochs): ...
RECURSIVE LearningEpochs(_, _, _, _, _)
LearningEpochs(c, in, epoch, batch, st) ==
    IF epoch >= c.learning_epochs
    THEN st
    ELSE LET reeval == [fn |-> "policy.act", states |-> batch,
                        taken_actions |-> batch]
         IN IF EarlyStop(c.kl_threshold, in.kl[epoch])
            THEN [st EXCEPT !.calls = @ \o <<reeval, [fn |-> "print", epoch |-> epoch]>>]
            ELSE LearningEpochs(c, in, epoch + 1, batch,
                   [calls |-> st.calls \o <<reeval>> \o EpochCalls(c, in, epoch, batch),
                    epochs |-> st.epochs + 1,
                    cumulative_policy_loss |->
                        st.cumulative_policy_loss + in.policy_loss[epoch],
                    cumulative_value_loss |->
                        st.cumulative_value_loss + in.value_loss[epoch],
                    cumulative_entropy_loss |->
                        IF c.entropy_loss_scale # 0
                        THEN st.cumulative_entropy_loss
                             + EntropyLoss(c.entropy_loss_scale, in.entropy[epoch])
                        ELSE st.cumulative_entropy_loss])

\* writer.add_scalar(tag, cumulative / divisor, timestep)
Scalar(tag, cumulative, divisor, step) ==
    [tag |-> tag, num |-> cumulative, den |-> divisor, step |-> step]

\* Faulty variant of RecordData: the entropy loss is written even when the
\* entropy term is disabled.
RecordDataAlwaysEntropy(c, st, timestepIn) ==
    <<Scalar("Loss/policy", st.cumulative_policy_loss, c.learning_epochs, timestepIn),
      Scalar("Loss/value", st.cumulative_value_loss, c.learning_epochs, timestepIn),
      Scalar("Loss/entropy", st.cumulative_entropy_loss, c.learning_epochs, timestepIn)>>

\* The record data section of _update.
RecordData(c, st, timestepIn) ==
    LET d == c.learning_epochs
    IN <<Scalar("Loss/policy", st.cumulative_policy_loss, d, timestepIn),
         Scalar("Loss/value", st.cumulative_value_loss, d, timestepIn)>>
       \o (IF c.entropy_loss_scale # 0
           THEN <<Scalar("Loss/entropy", st.cumulative_entropy_loss, d, timestepIn)>>
           ELSE << >>)

\* Faulty variant of Preamble: the batch is sampled before the returns and
\* advantages are computed.
PreambleSampleFirst(next_states, last_values) ==
    <<[fn |-> "value.act", states |-> next_states, inference |-> TRUE],
      [fn |-> "memory.sample_all", names |-> tensors_names],
      [fn |-> "memory.compute_functions", last_values |-> last_values,
       hyperparameters |-> computing_hyperparameters]>>

\* The first three calls of _update: the bootstrap value, the returns and
\* advantages, the full-batch sample.
Preamble(next_states, last_values) ==
    <<[fn |-> "value.act", states |-> next_states, inference |-> TRUE],
      [fn |-> "memory.compute_functions", last_values |-> last_values,
       hyperparameters |-> computing_hyperparameters],
      [fn |-> "memory.sample_all", names |-> tensors_names]>>

\* PPO._update(timestep, timesteps): its calls, the memory it leaves, its
\* locals at the end, the scalars it wrote and the exception it raised.
Update(c, mem, next_states, in, timestepIn) ==
    LET last_values == ValueAct(next_states, TRUE)
        functions == [last_values |-> last_values, rows |-> Len(mem.samples),
                      hyperparameters |-> computing_hyperparameters]
        mem2 == [mem EXCEPT !.functions = functions]
        batch == [rows |-> Len(mem2.samples), functions |-> mem2.functions]
        head == Preamble(next_states, last_values)
        st == LearningEpochs(c, in, 0, batch,
                 [calls |-> head, epochs |-> 0, cumulative_policy_loss |-> 0,
                  cumulative_value_loss |-> 0, cumulative_entropy_loss |-> 0])
        raised == c.learning_epochs = 0   \* cumulative / 0
    IN [calls |-> st.calls,
        memory |-> mem2,
        locals |-> [timestep |-> timestepIn, epochs |-> st.epochs, kl |-> in.kl,
                    policy_loss |-> in.policy_loss, value_loss |-> in.value_loss,
                    entropy |-> in.entropy,
                    cumulative_policy_loss |-> st.cumulative_policy_loss,
                    cumulative_value_loss |-> st.cumulative_value_loss,
                    cumulative_entropy_loss |-> st.cumulative_entropy_loss],
        scalars |-> IF raised THEN << >> ELSE RecordData(c, st, timestepIn),
        error |-> IF raised THEN "ZeroDivisionError" ELSE "none"]

(* -------------------------- post_interaction --------------------------- *)
\* Faulty variant of UpdateDue: the learning-start threshold is ignored.
UpdateDueIgnoringWarmup(r, rollouts, t, learning_starts) == r % rollouts = 0

\* Faulty variant of UpdateDue: after the warm-up every call updates.
UpdateDueAfterWarmup(r, rollouts, t, learning_starts) == t >= learning_starts

\* if not self._rollout % self._rollouts and timestep >= self._learning_starts
UpdateDue(r, rollouts, t, learning_starts) == r % rollouts = 0 /\ t >= learning_starts

\* PPO.post_interaction(timestep, timesteps), and the loop's step to the next timestep
post_interaction(timestepIn) ==
    /\ pc = "post"
    /\ rollout' = rollout + 1
    /\ interactions' = interactions + 1
    /\ timestep' = timestep + 1
    /\ IF UpdateDue(rollout', cfg.rollouts, timestepIn, cfg.learning_starts)
       THEN \E in \in UpdateInputs(cfg.learning_epochs) :
              LET u == Update(cfg, memory, current_next_states, in, timestepIn)
              IN /\ updates' = updates + 1
                 /\ calls' = u.calls
                 /\ memory' = u.memory
                 /\ locals' = u.locals
                 /\ scalars' = u.scalars
                 /\ error' = u.error
                 /\ pc' = IF u.error # "none" THEN "error"
                          ELSE IF timestep' < MaxTimesteps THEN "pre" ELSE "done"
       ELSE /\ calls' = << >>
            /\ pc' = IF timestep' < MaxTimesteps THEN "pre" ELSE "done"
            /\ UNCHANGED <<updates, memory, locals, scalars, error>>
    /\ UNCHANGED <<PPO_DEFAULT_CONFIG, constructed, cfgArg, networks, cfg,
                   policy_optimizer, value_optimizer, current_log_prob,
                   current_next_states, returned>>
    /\ UNCHANGED <<loaderVars, lossVars>>

Next ==
    \/ \E n \in NetworksArgs, m \in MemoryArgs, c \in CfgArgs : Construct(n, m, c)
    \/ pre_interaction
    \/ \E inference \in BOOLEAN, t \in {Some(timestep), None} :
           act(Obs(timestep), inference, t)
    \/ record_transition(Obs(timestep), returned.actions, Reward(timestep),
                         Obs(timestep + 1), Done(timestep))
    \/ post_interaction(timestep)

Spec == Init /\ [][Next]_vars

(* ------------------------ load_bidexhands_env -------------------------- *)
\* The option names and the other strings of the command lines.
OptTask == <<"--task">>
OptTaskType == <<"--task", "_type">>
OptNumEnvs == <<"--num_envs">>
OptHeadless == <<"--headless">>
TaskA == <<"ShadowHandOver">>
TaskB == <<"ShadowHandCatchUnderarm">>
MultiAgent == <<"MultiAgent">>
EmptyStr == << >>

\* str(n)
Str(n) == <<ToString(n)>>

\* Flatten a sequence of argument lists into one list.
RECURSIVE Concat(_)
Concat(lists) == IF lists = << >> THEN << >> ELSE Head(lists) \o Concat(Tail(lists))

\* The command lines the process may have been started with: the script
\* name, then each option given or not.
SysArgvs ==
    {<<Script>> \o Concat(<<t, ty, n, h>>) :
        t \in {<< >>, <<OptTask, TaskB>>, <<OptTask \o <<"=">> \o TaskB>>},
        ty \in {<< >>, <<OptTaskType, MultiAgent>>},
        n \in {<< >>, <<OptNumEnvs, Str(4)>>},
        h \in {<< >>, <<OptHeadless>>}}

\* The cli_args arguments: none, or one option.
CliArgs ==
    {<< >>, <<OptTask, TaskB>>, <<OptTaskType, MultiAgent>>, <<OptNumEnvs, Str(4)>>,
     <<OptHeadless>>}

TaskNames == {EmptyStr, TaskA}
NumEnvs == {None, Some(0), Some(2)}
Headless == {None, [bool |-> TRUE], [bool |-> FALSE]}
TaskTypes == {None, [str |-> EmptyStr], [str |-> MultiAgent]}

\* str.startswith
StartsWith(arg, prefix) ==
    Len(arg) >= Len(prefix) /\ SubSeq(arg, 1, Len(prefix)) = prefix

\* arg_exists(arg_prefix) over cli_args + sys.argv
arg_exists(arg_prefix, args) ==
    \E i \in 1..Len(args) : StartsWith(args[i], arg_prefix)

\* Handle task argument: what is appended, or the ValueError.
HandleTask(args, task_name) ==
    IF ~arg_exists(OptTask, args)
    THEN IF task_name # EmptyStr
         THEN [extend |-> <<OptTask, task_name>>, error |-> "none", warning |-> {}]
         ELSE [extend |-> << >>, error |-> "ValueError", warning |-> {}]
    ELSE [extend |-> << >>, error |-> "none",
          warning |-> IF task_name # EmptyStr THEN {"task_name"} ELSE {}]

\* Handle num_envs argument.
HandleNumEnvs(args, num_envs) ==
    IF ~arg_exists(OptNumEnvs, args)
    THEN [extend |-> IF num_envs # None /\ num_envs.int > 0
                     THEN <<OptNumEnvs, Str(num_envs.int)>> ELSE << >>,
          warning |-> {}]
    ELSE [extend |-> << >>,
          warning |-> IF num_envs # None THEN {"num_envs"} ELSE {}]

\* Handle task_type argument.
HandleTaskType(args, task_type) ==
    IF ~arg_exists(OptTaskType, args)
    THEN [extend |-> IF task_type # None /\ task_type.str # EmptyStr
                     THEN <<OptTaskType, task_type.str>> ELSE << >>,
          warning |-> {}]
    ELSE [extend |-> << >>,
          warning |-> IF task_type # None THEN {"task_type"} ELSE {}]

\* Handle headless argument.
HandleHeadless(args, headless) ==
    IF ~arg_exists(OptHeadless, args)
    THEN [extend |-> IF headless # None THEN <<OptHeadless>> ELSE << >>,
          warning |-> {}]
    ELSE [extend |-> << >>,
          warning |-> IF headless # None THEN {"headless"} ELSE {}]

\* load_bidexhands_env(task_name, num_envs, headless, cli_args, task_type),
\* up to and including sys.argv += cli_args
load_bidexhands_env(task_name, num_envs, headless, task_type) ==
    /\ call = None
    /\ LET t == HandleTask(cli_args \o sys_argv, task_name)
           a1 == cli_args \o t.extend
           n == HandleNumEnvs(a1 \o sys_argv, num_envs)
           a2 == a1 \o n.extend
           ty == HandleTaskType(a2 \o sys_argv, task_type)
           a3 == a2 \o ty.extend
           h == HandleHeadless(a3 \o sys_argv, headless)
           a4 == a3 \o h.extend
           inputs == [task_name |-> task_name, num_envs |-> num_envs,
                      headless |-> headless, task_type |-> task_type,
                      cli_args |-> cli_args, sys_argv |-> sys_argv]
       IN IF t.error # "none"
          THEN /\ call' = [inputs |-> inputs, error |-> t.error, added |-> << >>,
                           warnings |-> {}]
               /\ UNCHANGED <<sys_argv, cli_args>>
          ELSE /\ call' = [inputs |-> inputs, error |-> "none",
                           added |-> t.extend \o n.extend \o ty.extend \o h.extend,
                           warnings |-> t.warning \cup n.warning \cup ty.warning
                                          \cup h.warning]
               /\ cli_args' = a4
               /\ sys_argv' = sys_argv \o a4
    /\ UNCHANGED <<agentVars, lossVars>>

\* A process that calls the loader once, from any command line.
InitLoader ==
    /\ InitAgent
    /\ sys_argv \in SysArgvs
    /\ cli_args \in CliArgs
    /\ call = None
    /\ minibatch = None
    /\ policy_loss = None

NextLoader ==
    \E task_name \in TaskNames, num_envs \in NumEnvs, headless \in Headless,
       task_type \in TaskTypes :
        load_bidexhands_env(task_name, num_envs, headless, task_type)

SpecLoader == InitLoader /\ [][NextLoader]_vars

(* ----------------------------- policy loss ---------------------------- *)
\* Exact rationals <<numerator, denominator>> in lowest terms, denominator > 0.
Abs(n) == IF n < 0 THEN 0 - n ELSE n

RECURSIVE GCD(_, _)
GCD(a, b) == IF b = 0 THEN a ELSE GCD(b, a % b)

Rat(n, d) == LET g == GCD(Abs(n), d) IN <<n \div g, d \div g>>
RInt(n) == <<n, 1>>
RAdd(a, b) == Rat(a[1] * b[2] + b[1] * a[2], a[2] * b[2])
RNeg(a) == <<0 - a[1], a[2]>>
RSub(a, b) == RAdd(a, RNeg(b))
RMul(a, b) == Rat(a[1] * b[1], a[2] * b[2])
RLess(a, b) == a[1] * b[2] < b[1] * a[2]
RLeq(a, b) == a[1] * b[2] <= b[1] * a[2]
RDivInt(a, n) == Rat(a[1], a[2] * n)

\* A log-probability is kept as the probability weight it is the logarithm
\* of, so that torch.exp of a difference of two of them is an exact quotient.
Log(p) == [log |-> p]
LogProbs == {Log(p) : p \in {2, 4, 5}}
Advantages == {-1, 0, 2}
RatioClips == {Rat(1, 5), Rat(1, 2)}

Minibatches ==
    UNION {{[sampled_advantages |-> a, sampled_log_prob |-> old, next_log_prob |-> new,
             ratio_clip |-> eps] :
                a \in [1..n -> Advantages], old \in [1..n -> LogProbs],
                new \in [1..n -> LogProbs], eps \in RatioClips} : n \in 1..MaxBatch}

\* torch.exp(next_log_prob - sampled_log_prob), elementwise
exp_diff(next, sampled) == Rat(next.log, sampled.log)

\* Faulty variant of clip: only the upper bound is applied.
clip_upper(x, lo, hi) == IF RLess(hi, x) THEN hi ELSE x

\* torch.clip(x, lo, hi) = min(max(x, lo), hi), elementwise
clip(x, lo, hi) ==
    LET raised == IF RLess(x, lo) THEN lo ELSE x
    IN IF RLess(hi, raised) THEN hi ELSE raised

\* torch.min(a, b), elementwise
min(a, b) == IF RLess(b, a) THEN b ELSE a

RECURSIVE sum(_)
sum(t) == IF t = << >> THEN RInt(0) ELSE RAdd(t[1], sum(Tail(t)))

\* tensor.mean()
mean(t) == RDivInt(sum(t), Len(t))

\* The policy loss lines of one epoch of _update.
PolicyLoss(b) ==
    LET idx == 1..Len(b.sampled_advantages)
        one == RInt(1)
        ratio == [i \in idx |-> exp_diff(b.next_log_prob[i], b.sampled_log_prob[i])]
        surrogate == [i \in idx |-> RMul(RInt(b.sampled_advantages[i]), ratio[i])]
        surrogate_clipped ==
            [i \in idx |-> RMul(RInt(b.sampled_advantages[i]),
                                clip(ratio[i], RSub(one, b.ratio_clip),
                                     RAdd(one, b.ratio_clip)))]
        minimum == [i \in idx |-> min(surrogate[i], surrogate_clipped[i])]
    IN [ratio |-> ratio, surrogate |-> surrogate,
        surrogate_clipped |-> surrogate_clipped, min |-> minimum,
        value |-> RNeg(mean(minimum))]

compute_policy_loss ==
    /\ minibatch # None
    /\ policy_loss = None
    /\ policy_loss' = PolicyLoss(minibatch)
    /\ UNCHANGED <<agentVars, loaderVars, minibatch>>

\* One policy loss computation on any minibatch.
InitLoss ==
    /\ InitAgent
    /\ sys_argv = <<Script>>
    /\ cli_args = << >>
    /\ call = None
    /\ minibatch \in Minibatches
    /\ policy_loss = None

NextLoss == compute_policy_loss

SpecLoss == InitLoss /\ [][NextLoss]_vars

(* ------------------------------ properties ----------------------------- *)
\* Number of calls to fn in the latest handler's call log.
Count(fn) == Cardinality({i \in 1..Len(calls) : calls[i].fn = fn})

\* The latest handler was a post_interaction that ran _update.
UpdateJustRan == Len(calls) >= 3 /\ calls[1].fn = "value.act" /\ calls[2].fn # "memory.add_samples"

MinOf(S) == CHOOSE x \in S : \A y \in S : x <= y

\* C1: every post_interaction call adds one to the rollout counter and runs
\* _update exactly when the new counter is a multiple of rollouts and the
\* timestep passed is at least learning_starts; with learning_starts = 0 the
\* number of updates after N calls is N div rollouts.
C1_UpdateCadence ==
    /\ [][interactions' # interactions =>
            /\ interactions' = interactions + 1
            /\ rollout' = rollout + 1
            /\ updates' \in {updates, updates + 1}
            /\ (updates' = updates + 1) <=>
                 (rollout' % cfg.rollouts = 0 /\ timestep >= cfg.learning_starts)]_vars
    /\ [](cfg # None /\ cfg.learning_starts = 0 => updates = interactions \div cfg.rollouts)

C1_Witness ==
    /\ cfg # None /\ cfg.rollouts = 2 /\ cfg.learning_starts = 0
    /\ interactions = 3 /\ updates = 1

\* C2 (as claimed): the scalars written by an _update that executed at least
\* one epoch equal the accumulated loss divided by the epochs executed.
C2_MeanOverExecutedEpochs ==
    (locals # None /\ locals.epochs > 0) =>
        \A i \in 1..Len(scalars) :
            /\ scalars[i].den # 0
            /\ scalars[i].num * locals.epochs
                 = scalars[i].den *
                     (CASE scalars[i].tag = "Loss/policy" -> locals.cumulative_policy_loss
                        [] scalars[i].tag = "Loss/value" -> locals.cumulative_value_loss
                        [] scalars[i].tag = "Loss/entropy" -> locals.cumulative_entropy_loss)

\* C3: in an _update with kl_threshold > 0, if the KL of epoch k is the first
\* to exceed the threshold then exactly k epochs of policy and value optimizer
\* steps were applied, the scalars were written and no exception was raised;
\* if no KL exceeds it, exactly learning_epochs epochs were executed.
C3_EarlyStop ==
    (UpdateJustRan /\ cfg.kl_threshold > 0) =>
        LET exceeding == {e \in 0..(cfg.learning_epochs - 1) :
                             locals.kl[e] > cfg.kl_threshold}
            expected == IF exceeding # {} THEN MinOf(exceeding) ELSE cfg.learning_epochs
        IN /\ locals.epochs = expected
           /\ Count("policy_optimizer.step") = expected
           /\ Count("value_optimizer.step") = expected
           /\ exceeding # {} => (error = "none" /\ Len(scalars) >= 2)

C3_Witness ==
    /\ UpdateJustRan /\ cfg.kl_threshold > 0 /\ cfg.learning_epochs = 2
    /\ locals.kl[0] <= cfg.kl_threshold /\ locals.kl[1] > cfg.kl_threshold
    /\ Count("policy_optimizer.step") = 1 /\ Len(scalars) >= 2 /\ error = "none"

\* C4 (as claimed): every stored transition carries the log-probability of
\* its own action, as computed by the act() call of its timestep.
C4_StoredLogProbOfAction ==
    (memory # None) =>
        \A i \in 1..Len(memory.samples) :
            memory.samples[i].log_prob =
                [log_prob_of |-> memory.samples[i].actions,
                 given |-> memory.samples[i].states]

\* C5: an act() call below random_timesteps takes policy.random_act and does
\* not call policy.act; at or above it, it calls policy.act and caches its
\* log-probability; no act() call changes the rollout counter, the cached
\* next states, the memory, the configuration or the optimizers.
C5_ActGate ==
    [][(pc = "act" /\ pc' # "act") =>
          /\ UNCHANGED <<rollout, current_next_states, memory, cfg,
                         policy_optimizer, value_optimizer, PPO_DEFAULT_CONFIG>>
          /\ pc' = "record" =>
               IF timestep < cfg.random_timesteps
               THEN /\ \A i \in 1..Len(calls') : calls'[i].fn # "policy.act"
                    /\ \E i \in 1..Len(calls') : calls'[i].fn = "policy.random_act"
                    /\ returned'.actions = PolicyRandomAct(Obs(timestep))
               ELSE /\ \E i \in 1..Len(calls') : calls'[i].fn = "policy.act"
                    /\ \A i \in 1..Len(calls') : calls'[i].fn # "policy.random_act"
                    /\ returned'.actions = PolicyAct(Obs(timestep)).actions
                    /\ current_log_prob' = PolicyAct(Obs(timestep)).log_prob]_vars

C5_Witness ==
    /\ pc = "record" /\ timestep = cfg.random_timesteps /\ timestep > 0
    /\ current_log_prob = PolicyAct(Obs(timestep)).log_prob
    /\ memory.samples[timestep].actions.sampled_by = "policy.random_act"

\* C6: every _update first estimates the bootstrap value, then calls
\* compute_functions with it (normalize_returns False, normalize_advantages
\* True), then sample_all, then runs the epochs; every sample_all of any
\* handler follows a compute_functions with no add_samples in between, and
\* every epoch works on returns computed from the whole current memory.
C6_UpdateOrder ==
    [][/\ updates' # updates =>
            /\ Len(calls') >= 3
            /\ calls'[1] = [fn |-> "value.act", states |-> current_next_states,
                            inference |-> TRUE]
            /\ calls'[2] = [fn |-> "memory.compute_functions",
                            last_values |-> ValueAct(current_next_states, TRUE),
                            hyperparameters |-> [normalize_returns |-> FALSE,
                                                 normalize_advantages |-> TRUE]]
            /\ calls'[3].fn = "memory.sample_all"
            /\ \A i \in 4..Len(calls') :
                 /\ calls'[i].fn \notin {"memory.compute_functions", "memory.sample_all",
                                         "memory.add_samples"}
                 /\ calls'[i].fn = "policy.act" =>
                      /\ calls'[i].states.rows = Len(memory'.samples)
                      /\ calls'[i].states.functions.rows = Len(memory'.samples)
                      /\ calls'[i].states.functions.last_values
                           = ValueAct(current_next_states, TRUE)
       /\ \A i \in 1..Len(calls') :
            calls'[i].fn = "memory.sample_all" =>
              \E j \in 1..(i - 1) :
                 /\ calls'[j].fn = "memory.compute_functions"
                 /\ \A k \in (j + 1)..(i - 1) : calls'[k].fn # "memory.add_samples"]_vars

C6_Witness ==
    /\ updates >= 2 /\ UpdateJustRan /\ Count("policy.act") >= 2
    /\ Count("memory.sample_all") = 1

\* C7: a record_transition call appends exactly one row, whose values field
\* is the inference-mode value estimate of the states argument and whose
\* states, actions, rewards and dones are the arguments, and it caches the
\* next_states argument.
C7_RecordedRow ==
    [][(pc = "record" /\ pc' # "record") =>
          /\ Len(memory'.samples) = Len(memory.samples) + 1
          /\ SubSeq(memory'.samples, 1, Len(memory.samples)) = memory.samples
          /\ LET row == memory'.samples[Len(memory'.samples)]
             IN /\ row.values = ValueAct(Obs(timestep), TRUE)
                /\ row.states = Obs(timestep)
                /\ row.actions = returned.actions
                /\ row.rewards = Reward(timestep)
                /\ row.dones = Done(timestep)
          /\ current_next_states' = Obs(timestep + 1)]_vars

C7_Witness ==
    /\ pc = "post" /\ memory # None /\ Len(memory.samples) = 2
    /\ memory.samples[2].values = ValueAct(Obs(1), TRUE)
    /\ current_next_states = Obs(2)

\* C8: the last_values every _update passes to compute_functions is the
\* value estimate of the next_states of the latest record_transition call,
\* the state after the last stored transition.
C8_BootstrapFromLastNextStates ==
    [][updates' # updates =>
          \E i \in 1..Len(calls') :
             /\ calls'[i].fn = "memory.compute_functions"
             /\ calls'[i].last_values = ValueAct(Obs(timestep + 1), TRUE)
             /\ calls'[i].last_values
                  = ValueAct(memory.samples[Len(memory.samples)].next_states, TRUE)]_vars

C8_Witness ==
    /\ UpdateJustRan /\ updates >= 1 /\ timestep = 3
    /\ calls[2].last_values = ValueAct(Obs(3), TRUE)

\* C9 (as claimed): no constructor call changes the process-wide defaults,
\* and an agent constructed without overrides has the documented defaults.
C9_DefaultsNeverChange ==
    /\ PPO_DEFAULT_CONFIG = DocumentedDefaults
    /\ (cfg # None /\ DOMAIN cfgArg = {}) => cfg = DocumentedDefaults

\* C10: a constructor call whose networks lack "policy" or "value" ends in a
\* KeyError with no optimizer built and no tensor created in the memory; an
\* agent has optimizers only if both keys were given.
C10_FailFastOnMissingNetwork ==
    constructed =>
        IF {"policy", "value"} \subseteq networks
        THEN error # "KeyError"
        ELSE /\ error = "KeyError"
             /\ pc = "error"
             /\ cfg = None
             /\ policy_optimizer = None
             /\ value_optimizer = None
             /\ memory # None => memory.tensors = {}

C10_Witness ==
    /\ constructed /\ error = "KeyError" /\ networks = {"policy"}
    /\ memory # None /\ memory.tensors = {} /\ policy_optimizer = None
    /\ PPO_DEFAULT_CONFIG # DocumentedDefaults

\* The option opt is given in args, as "opt" or as "opt=value".
HasOption(args, opt) ==
    \E i \in 1..Len(args) : args[i] = opt \/ StartsWith(args[i], opt \o <<"=">>)

\* Number of times the option opt is among the arguments args.
Times(args, opt) == Cardinality({i \in 1..Len(args) : args[i] = opt})

\* The option opt is in args, followed by value.
HasPair(args, opt, value) ==
    \E i \in 1..(Len(args) - 1) : args[i] = opt /\ args[i + 1] = value

\* The command line the loader call found: cli_args + sys.argv.
CommandLine == call.inputs.cli_args \o call.inputs.sys_argv

\* C11 (as claimed): a call with an empty task_name and no --task argument
\* in cli_args or sys.argv raises ValueError, whatever else is on the
\* command line.
C11_NoTaskRaisesValueError ==
    (call # None /\ call.inputs.task_name = EmptyStr /\ ~HasOption(CommandLine, OptTask))
        => call.error = "ValueError"

\* C12 (as claimed): in a call that succeeds, for each of task, num_envs,
\* task_type and headless: an option already on the command line gets
\* nothing appended; an absent option whose parameter is given gets the
\* parameter appended; no option is appended twice; and task_name is used
\* whenever no --task argument is on the command line.
C12_CommandLineHasPriority ==
    (call # None /\ call.error = "none") =>
        LET in == call.inputs
        IN /\ \A opt \in {OptTask, OptNumEnvs, OptTaskType, OptHeadless} :
                /\ HasOption(CommandLine, opt) => Times(call.added, opt) = 0
                /\ Times(call.added, opt) <= 1
           /\ (~HasOption(CommandLine, OptTask) /\ in.task_name # EmptyStr)
                => HasPair(call.added, OptTask, in.task_name)
           /\ (~HasOption(CommandLine, OptNumEnvs) /\ in.num_envs # None
                 /\ in.num_envs.int > 0)
                => HasPair(call.added, OptNumEnvs, Str(in.num_envs.int))
           /\ (~HasOption(CommandLine, OptTaskType) /\ in.task_type # None
                 /\ in.task_type.str # EmptyStr)
                => HasPair(call.added, OptTaskType, in.task_type.str)
           /\ (~HasOption(CommandLine, OptHeadless) /\ in.headless = [bool |-> TRUE])
                => Times(call.added, OptHeadless) = 1

\* C13 (as claimed): in a call that succeeds with no --headless on the
\* command line, --headless is added when headless is True and is not added
\* when headless is False or None.
C13_HeadlessParameter ==
    (call # None /\ call.error = "none" /\ ~HasOption(CommandLine, OptHeadless)) =>
        (Times(call.added, OptHeadless) = 1) <=> (call.inputs.headless = [bool |-> TRUE])

\* Number of scalars with the given tag written by the latest _update.
Emitted(tag) == Cardinality({i \in 1..Len(scalars) : scalars[i].tag = tag})

\* The losses handed to backward just before a policy optimizer step.
PolicyObjectives ==
    {calls[i - 1].loss : i \in {j \in 2..Len(calls) : calls[j].fn = "policy_optimizer.step"}}

RECURSIVE SumTo(_, _)
SumTo(f, n) == IF n = 0 THEN 0 ELSE f[n - 1] + SumTo(f, n - 1)

\* What C14 says of an _update whatever its outcome: with a zero scale the
\* entropy is never computed, adds nothing to the policy objective and is
\* not accumulated or written; with a non-zero scale it is computed and
\* accumulated in every executed epoch.
EntropyGate ==
    IF cfg.entropy_loss_scale = 0
    THEN /\ Count("policy.get_entropy") = 0
         /\ \A x \in PolicyObjectives : \E e \in DOMAIN locals.policy_loss :
                x = locals.policy_loss[e]
         /\ locals.cumulative_entropy_loss = 0
         /\ Emitted("Loss/entropy") = 0
    ELSE /\ Count("policy.get_entropy") = locals.epochs
         /\ \A x \in PolicyObjectives : \E e \in DOMAIN locals.policy_loss :
                x = locals.policy_loss[e] - cfg.entropy_loss_scale * locals.entropy[e]
         /\ locals.cumulative_entropy_loss
              = (0 - cfg.entropy_loss_scale) * SumTo(locals.entropy, locals.epochs)

C15_NoEarlyStopForNonPositiveThreshold ==
    (UpdateJustRan /\ cfg.kl_threshold <= 0) =>
        /\ locals.epochs = cfg.learning_epochs
        /\ Count("policy_optimizer.step") = cfg.learning_epochs
        /\ Count("value_optimizer.step") = cfg.learning_epochs

\* The optimizer and backward calls of the latest handler, in order; a
\* backward call is named by the tensor it differentiates.
IsOptimizerCall(c) ==
    c.fn \in {"policy_optimizer.zero_grad", "policy_optimizer.step",
              "value_optimizer.zero_grad", "value_optimizer.step", "backward"}

OptimizerCalls ==
    LET sel == SelectSeq(calls, IsOptimizerCall)
    IN [i \in 1..Len(sel) |->
          IF sel[i].fn = "backward" THEN "backward " \o sel[i].tensor ELSE sel[i].fn]

EpochOrder ==
    <<"policy_optimizer.zero_grad", "backward policy_loss + entropy_loss",
      "policy_optimizer.step",
      "value_optimizer.zero_grad", "backward value_loss", "value_optimizer.step">>

\* C16: in every executed epoch of an _update the order is policy zero_grad,
\* policy backward, policy step, then value zero_grad, value backward, value
\* step, so gradients are zeroed before each step; after any update, early
\* stopped or not, the policy steps and the value steps are equally many.
C16_OptimizerOrder ==
    UpdateJustRan =>
        /\ Len(OptimizerCalls) = 6 * locals.epochs
        /\ \A i \in 1..Len(OptimizerCalls) : OptimizerCalls[i] = EpochOrder[((i - 1) % 6) + 1]
        /\ Count("policy_optimizer.step") = Count("value_optimizer.step")
        /\ Count("policy_optimizer.step") = locals.epochs

C16_Witness ==
    /\ UpdateJustRan /\ cfg.learning_epochs = 2 /\ locals.epochs = 1
    /\ Count("print") = 1
    /\ Count("policy_optimizer.step") = 1 /\ Count("value_optimizer.step") = 1

\* C17: per sample the policy loss takes min(adv * ratio,
\* adv * clip(ratio, 1 - eps, 1 + eps)): for adv > 0 and ratio > 1 + eps it is
\* adv * (1 + eps); for adv < 0 and ratio < 1 - eps it is adv * (1 - eps);
\* for ratio within [1 - eps, 1 + eps] it is adv * ratio; the policy loss is
\* the negated mean of these terms.
C17_ClippedSurrogate ==
    policy_loss # None =>
        LET n == Len(minibatch.sampled_advantages)
            lo == RSub(RInt(1), minibatch.ratio_clip)
            hi == RAdd(RInt(1), minibatch.ratio_clip)
        IN /\ \A i \in 1..n :
                LET adv == minibatch.sampled_advantages[i]
                    r == Rat(minibatch.next_log_prob[i].log,
                             minibatch.sampled_log_prob[i].log)
                    within == IF RLess(r, lo) THEN lo ELSE IF RLess(hi, r) THEN hi ELSE r
                    a == RMul(RInt(adv), r)
                    b == RMul(RInt(adv), within)
                    term == policy_loss.min[i]
                IN /\ term \in {a, b} /\ RLeq(term, a) /\ RLeq(term, b)
                   /\ (adv > 0 /\ RLess(hi, r)) => term = RMul(RInt(adv), hi)
                   /\ (adv < 0 /\ RLess(r, lo)) => term = RMul(RInt(adv), lo)
                   /\ (RLeq(lo, r) /\ RLeq(r, hi)) => term = a
           /\ RMul(RInt(n), policy_loss.value) = RNeg(sum(policy_loss.min))

C17_Witness ==
    /\ policy_loss # None
    /\ Len(minibatch.sampled_advantages) = 2
    /\ minibatch.ratio_clip = Rat(1, 5)
    /\ minibatch.sampled_advantages = <<2, -1>>
    /\ policy_loss.ratio = <<Rat(5, 2), Rat(2, 5)>>
    /\ policy_loss.min = <<Rat(12, 5), Rat(-4, 5)>>
    /\ policy_loss.value = Rat(-4, 5)

\* C18: a call of act without timestep (None) ends in an error: it calls
\* neither policy.random_act nor policy.act, returns nothing, and leaves the
\* cached log-probability as it was.
C18_ActWithoutTimestepFails ==
    [][(\E inference \in BOOLEAN : act(Obs(timestep), inference, None)) =>
          /\ error' = "TypeError" /\ pc' = "error"
          /\ calls' = << >>
          /\ returned' = returned
          /\ current_log_prob' = current_log_prob]_vars

C18_Witness ==
    /\ error = "TypeError" /\ pc = "error" /\ calls = << >>
    /\ timestep >= 1 /\ current_log_prob # None

\* C19: with one post_interaction call per consecutive timestep, the first
\* _update comes within rollouts calls of the first call whose timestep is at
\* least learning_starts, and each later _update comes exactly rollouts calls
\* after the one before; the rollout counter is never reset and counts the
\* warm-up calls too.
C19_UpdateSpacing ==
    /\ [][updates' # updates =>
            IF updates = 0
            THEN /\ locals'.timestep >= cfg.learning_starts
                 /\ locals'.timestep - cfg.learning_starts < cfg.rollouts
            ELSE locals'.timestep - locals.timestep = cfg.rollouts]_vars
    /\ [][rollout' >= rollout]_vars
    /\ [](/\ rollout = interactions
          /\ cfg # None =>
               /\ interactions >= cfg.learning_starts + cfg.rollouts => updates >= 1
               /\ updates >= 1 => interactions - 1 - locals.timestep < cfg.rollouts)

C19_Witness ==
    /\ cfg # None /\ cfg.rollouts = 2 /\ cfg.learning_starts = 1
    /\ updates = 1 /\ locals.timestep = 1 /\ interactions = 3 /\ rollout = 3

====
